---- MODULE Spec2Model ----
(***************************************************************************)
(* Kitchen Remix: a model of the three pieces of the application.          *)
(*                                                                         *)
(*   - the generation endpoint  (src/app/api/generate/route.ts)            *)
(*   - the delivery endpoint    (src/app/api/whatsapp/route.ts)            *)
(*   - the client page          (src/app/page.tsx)                         *)
(*                                                                         *)
(* Each piece has its own specification over the same variables:           *)
(* SpecGenerate, SpecWhatsApp and Spec (the page).  A specification keeps  *)
(* the variables of the other two pieces at their initial values.          *)
(*                                                                         *)
(* JSON values are tagged records: [t |-> "undef"], [t |-> "null"],        *)
(* [t |-> "num"], [t |-> "str", ...], [t |-> "arr", items |-> <<...>>],    *)
(* [t |-> "obj", ...].  A field is read only after its tag is tested, as   *)
(* the schemas of the code do.                                             *)
(***************************************************************************)
EXTENDS Naturals, Sequences, FiniteSets, TLC

VARIABLES
    \* ---- generation endpoint, one request at a time
    gEnvKey,        \* process.env.OPENAI_API_KEY: a JSON string or undefined
    gPc,            \* "idle" | "awaitModel" | "done"
    gRequest,       \* the request body as request.json() yields it
    gCalls,         \* the outbound calls to the model provider in this request
    gReply,         \* what the model provider answered
    gResponse,      \* the HTTP response of the handler
    \* ---- delivery endpoint, one request at a time
    wEnv,           \* readEnv(): token, phoneId, defaultRecipient
    wPc,            \* "idle" | "awaitFetch" | "done"
    wRequest,       \* the request body as request.json() yields it
    wCalls,         \* the outbound calls to the messaging provider
    wReply,         \* what the messaging provider answered
    wResponse,      \* the HTTP response of the handler
    \* ---- client page (React state of HomePage, and what is in flight)
    fileChosen,     \* the file input holds a file (it is `required`)
    imageDataUrl,
    recipes,
    summary,
    loading,
    error,
    sendPhone,
    sendingToWhatsApp,
    whatsAppResult,
    readsInFlight,  \* FileReader.readAsDataURL calls not yet loaded
    genInFlight,    \* fetch("/api/generate") requests without a response
    waInFlight,     \* fetch("/api/whatsapp") requests without a response
    copiesInFlight, \* clipboard.writeText promises not yet settled
    errorOrigin,    \* history: the handler whose setError produced `error`
    noticeTranscript, \* history: the message whose delivery `whatsAppResult`
                      \* reports, "" when it reports none
    \* ---- the memo of combinedMessage over the renders of the page
    transcript,       \* the text the memo yielded at the latest render
    transcriptBefore, \* the text it yielded at the render before
    renders           \* computations of the memo so far

genVars == <<gEnvKey, gPc, gRequest, gCalls, gReply, gResponse>>
waVars  == <<wEnv, wPc, wRequest, wCalls, wReply, wResponse>>
uiVars  == <<fileChosen, imageDataUrl, recipes, summary, loading, error,
             sendPhone, sendingToWhatsApp, whatsAppResult, readsInFlight,
             genInFlight, waInFlight, copiesInFlight, errorOrigin,
             noticeTranscript>>
memoVars == <<transcript, transcriptBefore, renders>>
vars    == <<genVars, waVars, uiVars, memoVars>>

(***************************************************************************)
(* JSON values                                                             *)
(***************************************************************************)
Undef == [t |-> "undef"]
JNull == [t |-> "null"]
JNum  == [t |-> "num"]
\* a string given by its characters (the image payload, the notes)
Str(cs) == [t |-> "str", chars |-> cs]
\* a string given by its length (the fields of the model's reply)
StrOfLen(n) == [t |-> "str", len |-> n]
Arr(items) == [t |-> "arr", items |-> items]
\* a string given by its text (environment values, phone numbers)
Text(s) == [t |-> "str", v |-> s]

\* The response before the handler has answered.
NoResponse == [status |-> 0]
NoReply == [t |-> "none"]
NoRequest == [t |-> "none"]

\* JavaScript truthiness of a JSON value or of an environment value.
JsTruthy(v) ==
    CASE v.t \in {"undef", "null"} -> FALSE
      [] v.t = "str" -> v.v # ""
      [] OTHER -> TRUE

(***************************************************************************)
(* Generation endpoint: src/app/api/generate/route.ts                      *)
(***************************************************************************)
\* ---- bounds of the inputs
MaxTypeLen == 2     \* characters of the media subtype in an image payload
MaxRecipes == 6     \* recipes in a reply of the model

\* ---- the limits the schemas state
ImageMin == 10
SummaryMin == 10
NameMin == 3
DescriptionMin == 10
IngredientMin == 2
IngredientsMin == 3
StepMin == 5
StepsMin == 3
RecipesMin == 3
RecipesMax == 5

Letters ==
    {"a","b","c","d","e","f","g","h","i","j","k","l","m",
     "n","o","p","q","r","s","t","u","v","w","x","y","z",
     "A","B","C","D","E","F","G","H","I","J","K","L","M",
     "N","O","P","Q","R","S","T","U","V","W","X","Y","Z"}

DataImagePrefix == <<"d","a","t","a",":","i","m","a","g","e","/">>
Base64Marker == <<";","b","a","s","e","6","4",",">>

\* p occurs in s at position i
OccursAt(s, p, i) ==
    /\ i + Len(p) - 1 <= Len(s)
    /\ \A k \in 1..Len(p) : s[i + k - 1] = p[k]

\* /^data:image\/[a-zA-Z+]+;base64,/ : anchored at the start, one or more
\* letters or "+", then the marker.
ImageRegexTest(s) ==
    /\ OccursAt(s, DataImagePrefix, 1)
    /\ \E n \in 1..Len(s) :
          /\ \A k \in 1..n :
                /\ Len(DataImagePrefix) + k <= Len(s)
                /\ s[Len(DataImagePrefix) + k] \in Letters \cup {"+"}
          /\ OccursAt(s, Base64Marker, Len(DataImagePrefix) + n + 1)

\* A faulty variant of requestSchema: the pattern is not tested.
requestSchemaNoRegex(body) ==
    /\ body.t = "obj"
    /\ body.imageDataUrl.t = "str"
    /\ Len(body.imageDataUrl.chars) >= ImageMin
    /\ body.notes.t \in {"str", "undef"}

\* requestSchema.safeParse(body).success
requestSchema(body) ==
    /\ body.t = "obj"
    /\ body.imageDataUrl.t = "str"
    /\ Len(body.imageDataUrl.chars) >= ImageMin
    /\ ImageRegexTest(body.imageDataUrl.chars)
    /\ body.notes.t \in {"str", "undef"}

\* The text part of the outbound request: the notes, when truthy.
NotesLine(notes) ==
    IF notes.t = "str" /\ notes.chars # <<>>
    THEN [kind |-> "Notes from the cook: ", notes |-> notes.chars]
    ELSE [kind |-> "No additional notes provided.", notes |-> <<>>]

\* openai.responses.create({...}) as the handler fills it in.
ModelCall(body) ==
    [model |-> "gpt-4o-mini",
     text |-> NotesLine(body.notes),
     image_url |-> body.imageDataUrl.chars,
     detail |-> "high"]

\* The handler up to its outbound call: the response it returns before the
\* call, or NoResponse when it goes on to call the model.
GenerateEarlyResponse(key, body) ==
    IF ~JsTruthy(key)
    THEN [status |-> 500, error |-> "OPENAI_API_KEY is not set on the server."]
    ELSE IF body.t = "invalid"
    THEN [status |-> 400, error |-> "Invalid JSON body."]
    ELSE IF ~requestSchema(body)
    THEN [status |-> 400, error |-> "Request validation failed."]
    ELSE NoResponse

\* z.string().min(n)
ZString(v, n) == v.t = "str" /\ v.len >= n

\* z.array(z.string().min(n)).min(m)
ZStringArray(v, n, m) ==
    /\ v.t = "arr"
    /\ \A i \in 1..Len(v.items) : ZString(v.items[i], n)
    /\ Len(v.items) >= m

\* The element schema of payloadSchema.recipes
recipeSchema(r) ==
    /\ r.t = "obj"
    /\ ZString(r.name, NameMin)
    /\ ZString(r.description, DescriptionMin)
    /\ ZStringArray(r.ingredients, IngredientMin, IngredientsMin)
    /\ ZStringArray(r.steps, StepMin, StepsMin)

\* A faulty variant of payloadSchema: the number of recipes is not bounded below.
payloadSchemaNoMin(p) ==
    /\ p.t = "obj"
    /\ ZString(p.summary, SummaryMin)
    /\ p.recipes.t = "arr"
    /\ \A i \in 1..Len(p.recipes.items) : recipeSchema(p.recipes.items[i])
    /\ Len(p.recipes.items) <= RecipesMax

\* payloadSchema.parse(payload) does not throw
payloadSchema(p) ==
    /\ p.t = "obj"
    /\ ZString(p.summary, SummaryMin)
    /\ p.recipes.t = "arr"
    /\ \A i \in 1..Len(p.recipes.items) : recipeSchema(p.recipes.items[i])
    /\ Len(p.recipes.items) >= RecipesMin
    /\ Len(p.recipes.items) <= RecipesMax

\* What payloadSchema.parse returns: the declared keys, unknown keys stripped.
parsedPayload(p) == [summary |-> p.summary, recipes |-> p.recipes]

\* The handler after the model call has settled.
GenerateFinish(reply) ==
    IF reply.t = "throw"
    THEN [status |-> 500, error |-> "provider error"]
    ELSE IF reply.t = "empty"
    THEN [status |-> 500, error |-> "Model response was empty."]
    ELSE IF reply.t = "notjson"
    THEN [status |-> 500,
          error |-> "Model response was not valid JSON. Please retake the photo and try again."]
    ELSE IF ~payloadSchema(reply.value)
    THEN [status |-> 500, error |-> "ZodError"]
    ELSE [status |-> 200, body |-> parsedPayload(reply.value)]

\* ---- the requests and the replies the endpoint is exercised with
ImageHeads ==
    {DataImagePrefix,
     <<"D","a","t","a",":","i","m","a","g","e","/">>,
     <<"d","a","t","a",":","t","e","x","t","/">>,
     <<" ">> \o DataImagePrefix,
     <<>>}
TypeAlphabet == {"p", "+", "-"}
ImageTypes == UNION {[1..n -> TypeAlphabet] : n \in 0..MaxTypeLen}
ImageTails == {Base64Marker, <<";","b","a","s","e","6","4">>, <<",">>}
ImageData == {<<"A">>}
ImageStrings ==
    {h \o ty \o tl \o d :
        h \in ImageHeads, ty \in ImageTypes, tl \in ImageTails, d \in ImageData}

GenerateBodies ==
    {[t |-> "invalid"], JNull}
    \cup {[t |-> "obj", imageDataUrl |-> i, notes |-> n] :
            i \in {Undef, JNum} \cup {Str(cs) : cs \in ImageStrings},
            n \in {Undef, JNum, Str(<<>>), Str(<<"n">>)}}

StrArr(n, len) == Arr([i \in 1..n |-> StrOfLen(len)])

GoodRecipe ==
    [t |-> "obj",
     name |-> StrOfLen(NameMin),
     description |-> StrOfLen(DescriptionMin),
     ingredients |-> StrArr(IngredientsMin, IngredientMin),
     steps |-> StrArr(StepsMin, StepMin)]

\* A recipe comfortably inside every bound.
AmpleRecipe ==
    [t |-> "obj",
     name |-> StrOfLen(NameMin + 1),
     description |-> StrOfLen(DescriptionMin + 1),
     ingredients |-> StrArr(IngredientsMin + 1, IngredientMin + 1),
     steps |-> StrArr(StepsMin + 1, StepMin + 1)]

\* GoodRecipe, AmpleRecipe and the recipes that break one bound each.
RecipePool ==
    {GoodRecipe, AmpleRecipe, JNull}
    \cup {[GoodRecipe EXCEPT !.name = x] :
            x \in {Undef, StrOfLen(NameMin - 1)}}
    \cup {[GoodRecipe EXCEPT !.description = x] :
            x \in {JNum, StrOfLen(DescriptionMin - 1)}}
    \cup {[GoodRecipe EXCEPT !.ingredients = x] :
            x \in {Undef,
                   StrArr(IngredientsMin - 1, IngredientMin),
                   Arr(<<StrOfLen(IngredientMin), StrOfLen(IngredientMin - 1),
                         StrOfLen(IngredientMin)>>)}}
    \cup {[GoodRecipe EXCEPT !.steps = x] :
            x \in {JNull,
                   StrArr(StepsMin - 1, StepMin),
                   Arr(<<StrOfLen(StepMin), StrOfLen(StepMin),
                         StrOfLen(StepMin - 1)>>)}}

\* Lists of up to MaxRecipes recipes: GoodRecipe everywhere but at most one place.
ReplyRecipes ==
    {[i \in 1..n |-> GoodRecipe] : n \in 0..MaxRecipes}
    \cup UNION {{[i \in 1..n |-> IF i = k THEN r ELSE GoodRecipe] :
                    k \in 1..n, r \in RecipePool} : n \in 1..MaxRecipes}

ReplyPayloads ==
    {JNull, JNum, Arr(<<>>)}
    \cup {[t |-> "obj", summary |-> sm, recipes |-> rs, extra |-> e] :
            sm \in {Undef, StrOfLen(SummaryMin - 1), StrOfLen(SummaryMin)},
            rs \in {Undef, JNull} \cup {Arr(x) : x \in ReplyRecipes},
            e \in BOOLEAN}

ModelReplies ==
    {[t |-> "throw"], [t |-> "empty"], [t |-> "notjson"]}
    \cup {[t |-> "json", value |-> v] : v \in ReplyPayloads}

\* ---- the endpoint as a state machine
GenerateIdle ==
    /\ gPc = "idle"
    /\ gRequest = NoRequest
    /\ gCalls = <<>>
    /\ gReply = NoReply
    /\ gResponse = NoResponse

\* POST, from the request's arrival to its first outbound call or its answer.
GeneratePOST(body) ==
    /\ gPc = "idle"
    /\ gRequest' = body
    /\ LET early == GenerateEarlyResponse(gEnvKey, body) IN
         IF early # NoResponse
         THEN /\ gResponse' = early
              /\ gCalls' = gCalls
              /\ gPc' = "done"
         ELSE /\ gResponse' = gResponse
              /\ gCalls' = Append(gCalls, ModelCall(body))
              /\ gPc' = "awaitModel"
    /\ UNCHANGED <<gEnvKey, gReply, waVars, uiVars, memoVars>>

\* POST, from the settling of the model call to the answer.
GenerateModelReturns(reply) ==
    /\ gPc = "awaitModel"
    /\ gReply' = reply
    /\ gResponse' = GenerateFinish(reply)
    /\ gPc' = "done"
    /\ UNCHANGED <<gEnvKey, gRequest, gCalls, waVars, uiVars, memoVars>>

\* The answer is sent; the endpoint waits for the next request.
GenerateRespond ==
    /\ gPc = "done"
    /\ gPc' = "idle"
    /\ gRequest' = NoRequest
    /\ gCalls' = <<>>
    /\ gReply' = NoReply
    /\ gResponse' = NoResponse
    /\ UNCHANGED <<gEnvKey, waVars, uiVars, memoVars>>

(***************************************************************************)
(* Delivery endpoint: src/app/api/whatsapp/route.ts                        *)
(***************************************************************************)
MaxMessages == 2    \* entries of `messages` in a provider response
MessageMin == 10

Err(kind) == [kind |-> kind]

\* whatsappSchema.safeParse(json).success
whatsappSchema(body) ==
    /\ body.t = "obj"
    /\ body.message.t = "str"
    /\ Len(body.message.v) >= MessageMin
    /\ body.phoneNumber.t \in {"str", "undef"}

\* parsed.data.phoneNumber ?? env.defaultRecipient
ResolveRecipient(phoneNumber, defaultRecipient) ==
    IF phoneNumber.t \in {"undef", "null"}
    THEN defaultRecipient ELSE phoneNumber

\* A faulty variant of RecipientMissing: only an undefined recipient is refused.
RecipientMissingUndefinedOnly(recipient) == recipient.t = "undef"

\* !recipient
RecipientMissing(recipient) == ~JsTruthy(recipient)

\* A faulty variant of WhatsAppEarlyResponse: the body is validated before the
\* credentials are looked at.
WhatsAppEarlyResponseBodyFirst(env, body) ==
    IF body.t = "invalid"
    THEN [status |-> 400, error |-> Err("Invalid JSON body.")]
    ELSE IF ~whatsappSchema(body)
    THEN [status |-> 400, error |-> Err("Request validation failed.")]
    ELSE IF ~JsTruthy(env.token) \/ ~JsTruthy(env.phoneId)
    THEN [status |-> 500,
          error |-> Err("WhatsApp credentials are not configured.")]
    ELSE IF RecipientMissing(ResolveRecipient(body.phoneNumber, env.defaultRecipient))
    THEN [status |-> 400,
          error |-> Err("Provide a phoneNumber in the request or configure WHATSAPP_RECIPIENT.")]
    ELSE NoResponse

\* The handler up to its outbound call: the response it returns before the
\* call, or NoResponse when it goes on to call the messaging provider.
WhatsAppEarlyResponse(env, body) ==
    IF ~JsTruthy(env.token) \/ ~JsTruthy(env.phoneId)
    THEN [status |-> 500,
          error |-> Err("WhatsApp credentials are not configured.")]
    ELSE IF body.t = "invalid"
    THEN [status |-> 400, error |-> Err("Invalid JSON body.")]
    ELSE IF ~whatsappSchema(body)
    THEN [status |-> 400, error |-> Err("Request validation failed.")]
    ELSE IF RecipientMissing(ResolveRecipient(body.phoneNumber, env.defaultRecipient))
    THEN [status |-> 400,
          error |-> Err("Provide a phoneNumber in the request or configure WHATSAPP_RECIPIENT.")]
    ELSE NoResponse

\* fetch(`https://graph.facebook.com/v19.0/${env.phoneId}/messages`, {...})
MessagingCall(env, body) ==
    [phoneId |-> env.phoneId.v,
     bearer |-> env.token.v,
     payload |->
        [messaging_product |-> "whatsapp",
         to |-> ResolveRecipient(body.phoneNumber, env.defaultRecipient).v,
         type |-> "text",
         preview_url |-> FALSE,
         body |-> body.message.v]]

\* whatsappResponse.json().catch(() => ({}))
JsonOrEmptyObject(b) ==
    IF b.t = "notjson" THEN [t |-> "obj", messages |-> Undef] ELSE b

\* responseBody?.messages
MessagesOf(b) == IF b.t = "obj" THEN b.messages ELSE Undef

\* A faulty variant of DeliveryStatus: queued only when a message is listed.
DeliveryStatusNonEmpty(b) ==
    IF MessagesOf(b).t = "arr" /\ MessagesOf(b).items # <<>>
    THEN "queued" ELSE "sent"

\* responseBody?.messages ? "queued" : "sent"
DeliveryStatus(b) == IF JsTruthy(MessagesOf(b)) THEN "queued" ELSE "sent"

\* responseBody?.messages?.[0]?.id ?? null
DeliveryId(b) ==
    LET ms == MessagesOf(b) IN
      IF ms.t = "arr" /\ Len(ms.items) >= 1
         /\ ms.items[1].t = "obj" /\ ms.items[1].id.t \notin {"undef", "null"}
      THEN ms.items[1].id
      ELSE JNull

\* The handler after the call to the messaging provider has settled.
WhatsAppFinish(reply) ==
    IF reply.t = "throw"
    THEN [status |-> 502, error |-> Err("fetch failed")]
    ELSE IF ~reply.ok
    THEN [status |-> 502,
          error |-> [kind |-> "WhatsApp API error", status |-> reply.status,
                     body |-> JsonOrEmptyObject(reply.body)]]
    ELSE LET responseBody == JsonOrEmptyObject(reply.body) IN
           [status |-> 200,
            body |-> [status |-> DeliveryStatus(responseBody),
                      id |-> DeliveryId(responseBody)]]

\* ---- the environments, requests and provider responses exercised
WhatsAppEnvs ==
    [token : {Undef, Text(""), Text("token")},
     phoneId : {Undef, Text("1055")},
     defaultRecipient : {Undef, Text(""), Text("+15550000000")}]

WhatsAppBodies ==
    {[t |-> "invalid"], JNull}
    \cup {[t |-> "obj", message |-> m, phoneNumber |-> ph] :
            m \in {Undef, JNum, Text(""), Text("123456789"),
                   Text("1234567890"), Text("Kitchen Remix menu")},
            ph \in {Undef, JNull, JNum, Text(""), Text("+14155551212")}}

ProviderMessage == {JNull} \cup {[t |-> "obj", id |-> i] :
                        i \in {Undef, Text("wamid.A"), Text("wamid.B")}}
ProviderMessages ==
    UNION {[1..n -> ProviderMessage] : n \in 0..MaxMessages}
ProviderBodies ==
    {[t |-> "notjson"], JNull}
    \cup {[t |-> "obj", messages |-> ms] :
            ms \in {Undef, JNull} \cup {Arr(x) : x \in ProviderMessages}}
ProviderReplies ==
    {[t |-> "throw"]}
    \cup {[t |-> "response", ok |-> (st \in {200, 201}), status |-> st, body |-> b] :
            st \in {200, 201, 400, 401, 500}, b \in ProviderBodies}

\* ---- the endpoint as a state machine
WhatsAppIdle ==
    /\ wPc = "idle"
    /\ wRequest = NoRequest
    /\ wCalls = <<>>
    /\ wReply = NoReply
    /\ wResponse = NoResponse

\* POST, from the request's arrival to its outbound call or its answer.
WhatsAppPOST(body) ==
    /\ wPc = "idle"
    /\ wRequest' = body
    /\ LET early == WhatsAppEarlyResponse(wEnv, body) IN
         IF early # NoResponse
         THEN /\ wResponse' = early
              /\ wCalls' = wCalls
              /\ wPc' = "done"
         ELSE /\ wResponse' = wResponse
              /\ wCalls' = Append(wCalls, MessagingCall(wEnv, body))
              /\ wPc' = "awaitFetch"
    /\ UNCHANGED <<wEnv, wReply, genVars, uiVars, memoVars>>

\* POST, from the settling of the provider call to the answer.
WhatsAppFetchReturns(reply) ==
    /\ wPc = "awaitFetch"
    /\ wReply' = reply
    /\ wResponse' = WhatsAppFinish(reply)
    /\ wPc' = "done"
    /\ UNCHANGED <<wEnv, wRequest, wCalls, genVars, uiVars, memoVars>>

\* The answer is sent; the endpoint waits for the next request.
WhatsAppRespond ==
    /\ wPc = "done"
    /\ wPc' = "idle"
    /\ wRequest' = NoRequest
    /\ wCalls' = <<>>
    /\ wReply' = NoReply
    /\ wResponse' = NoResponse
    /\ UNCHANGED <<wEnv, genVars, uiVars, memoVars>>

(***************************************************************************)
(* Client page: src/app/page.tsx                                           *)
(*                                                                         *)
(* A step of the page is one run of a handler between two awaits: React    *)
(* 18 (the app router of route.ts needs it) applies the state updates of   *)
(* such a run together, after an await too.  `notes` and                   *)
(* `imagePreview` are left out: `notes` is only copied into the request    *)
(* and `imagePreview` always equals `imageDataUrl`.                        *)
(***************************************************************************)
MaxReads == 2       \* file reads in flight
MaxCopies == 2      \* clipboard writes in flight
MaxInFlight == 2    \* requests in flight to one endpoint

\* The results the generation endpoint answers with: 3 recipes each.
PageRecipe(name) ==
    [name |-> name,
     description |-> "A quick dish from leftovers.",
     ingredients |-> <<"200g pasta", "2 tomatoes", "basil">>,
     steps |-> <<"Boil pasta", "Saute tomatoes", "Combine">>]
ResultA ==
    [summary |-> "Detected tomatoes, pasta, basil",
     recipes |-> <<PageRecipe("Quick Tomato Basil Pasta"),
                   PageRecipe("Tomato Bruschetta"),
                   PageRecipe("Basil Pesto Toast")>>]
ResultB ==
    [summary |-> "Detected rice, eggs, scallions",
     recipes |-> <<PageRecipe("Egg Fried Rice"),
                   PageRecipe("Scallion Omelette"),
                   PageRecipe("Rice Porridge")>>]
GenerationResults == {ResultA, ResultB}

\* The error texts of failed requests (body.error, or the page's default).
GenerateFailures == {"Request validation failed.", "Unable to generate recipes."}
WhatsAppFailures == {"Request validation failed.", "Failed to send WhatsApp message."}

PhoneInputs == {"", " ", "+14155551212"}
\* sendPhone.trim()
TrimPhone(p) == IF p = " " THEN "" ELSE p

\* The module is ASCII: U+1F373 and U+2022 are written out.
TitleLine == "<U+1F373> *Kitchen Remix AI Recipes*"
Bullet == "<U+2022> "

\* The characters String.prototype.trim removes that the texts here hold.
WhiteSpace == {" ", "\n", "\t", "\r"}

\* s.trimStart() and s.trimEnd()
RECURSIVE TrimStart(_)
TrimStart(s) ==
    IF Len(s) > 0 /\ SubSeq(s, 1, 1) \in WhiteSpace
    THEN TrimStart(SubSeq(s, 2, Len(s)))
    ELSE s
RECURSIVE TrimEnd(_)
TrimEnd(s) ==
    IF Len(s) > 0 /\ SubSeq(s, Len(s), Len(s)) \in WhiteSpace
    THEN TrimEnd(SubSeq(s, 1, Len(s) - 1))
    ELSE s

\* s.trim()
Trim(s) == TrimStart(TrimEnd(s))

\* lines.join("\n")
RECURSIVE Join(_)
Join(lines) ==
    IF Len(lines) = 0 THEN ""
    ELSE IF Len(lines) = 1 THEN lines[1]
    ELSE lines[1] \o "\n" \o Join(Tail(lines))

\* A faulty variant of RecipeLines: the recipes are numbered from 0.
RecipeLinesFromZero(recipe, index) ==
    <<"*" \o ToString(index - 1) \o ". " \o recipe.name \o "*",
      recipe.description,
      "_Ingredients_:">>
    \o [i \in 1..Len(recipe.ingredients) |-> Bullet \o recipe.ingredients[i]]
    \o <<"_Steps_:">>
    \o [i \in 1..Len(recipe.steps) |-> ToString(i) \o ". " \o recipe.steps[i]]
    \o <<"">>

\* What one pass of recipes.forEach pushes; `index` is index + 1 of the code.
RecipeLines(recipe, index) ==
    <<"*" \o ToString(index) \o ". " \o recipe.name \o "*",
      recipe.description,
      "_Ingredients_:">>
    \o [i \in 1..Len(recipe.ingredients) |-> Bullet \o recipe.ingredients[i]]
    \o <<"_Steps_:">>
    \o [i \in 1..Len(recipe.steps) |-> ToString(i) \o ". " \o recipe.steps[i]]
    \o <<"">>

RECURSIVE AllRecipeLines(_, _)
AllRecipeLines(rs, from) ==
    IF from > Len(rs) THEN <<>>
    ELSE RecipeLines(rs[from], from) \o AllRecipeLines(rs, from + 1)

\* combinedMessage: the text the memo yields for a recipe list and a summary.
combinedMessage(rs, sm) ==
    IF Len(rs) = 0 THEN ""
    ELSE Trim(Join(<<TitleLine, IF JsTruthy(sm) THEN sm.v \o "\n" ELSE "">>
                   \o AllRecipeLines(rs, 1)))

\* A faulty variant of SubmitEnabled: the submit button is never disabled.
SubmitEnabledAlways == fileChosen

\* The form submits: the button is not disabled and the required file
\* input holds a file.
SubmitEnabled == ~loading /\ fileChosen

\* The share panel is rendered.
SharePanelShown == Len(recipes) > 0

\* The send button is rendered and not disabled.
SendEnabled ==
    /\ SharePanelShown
    /\ ~(sendingToWhatsApp \/ combinedMessage(recipes, summary) = "")

Remove(seq, i) == SubSeq(seq, 1, i - 1) \o SubSeq(seq, i + 1, Len(seq))

PageInit ==
    /\ fileChosen = FALSE
    /\ imageDataUrl = JNull
    /\ recipes = <<>>
    /\ summary = JNull
    /\ loading = FALSE
    /\ error = JNull
    /\ sendPhone = ""
    /\ sendingToWhatsApp = FALSE
    /\ whatsAppResult = JNull
    /\ readsInFlight = 0
    /\ genInFlight = <<>>
    /\ waInFlight = <<>>
    /\ copiesInFlight = 0
    /\ errorOrigin = "none"
    /\ noticeTranscript = ""

\* handleFileChange: the selection is cleared, or a file that is not an
\* image is chosen, or an image is chosen and its read begins.
handleFileChange(file) ==
    /\ CASE file = "none" ->
              /\ fileChosen' = FALSE
              /\ imageDataUrl' = JNull
              /\ UNCHANGED <<error, errorOrigin, readsInFlight>>
         [] file = "other" ->
              /\ fileChosen' = TRUE
              /\ error' = Text("Please choose an image file.")
              /\ errorOrigin' = "file"
              /\ UNCHANGED <<imageDataUrl, readsInFlight>>
         [] file = "image" ->
              /\ readsInFlight < MaxReads
              /\ fileChosen' = TRUE
              /\ readsInFlight' = readsInFlight + 1
              /\ UNCHANGED <<imageDataUrl, error, errorOrigin>>
    /\ UNCHANGED <<recipes, summary, loading, sendPhone, sendingToWhatsApp,
                   whatsAppResult, noticeTranscript, genInFlight, waInFlight, copiesInFlight,
                   genVars, waVars, memoVars>>

\* reader.onload
ReaderOnload ==
    /\ readsInFlight > 0
    /\ readsInFlight' = readsInFlight - 1
    /\ imageDataUrl' = Text("data:image/png;base64,AAAA")
    /\ UNCHANGED <<fileChosen, recipes, summary, loading, error, sendPhone,
                   sendingToWhatsApp, whatsAppResult, noticeTranscript, genInFlight, waInFlight,
                   copiesInFlight, errorOrigin, genVars, waVars, memoVars>>

\* A faulty variant of ErrorOnSubmit: the submission leaves the error as it is.
ErrorOnSubmitKept == error

\* setError(null) of handleGenerate
ErrorOnSubmit == JNull

\* A faulty variant of RecipesOnSubmit: the submission leaves the recipes shown.
RecipesOnSubmitKept == recipes

\* setRecipes([]) of handleGenerate
RecipesOnSubmit == <<>>

\* handleGenerate up to its fetch
handleGenerate ==
    /\ SubmitEnabled
    /\ IF ~JsTruthy(imageDataUrl)
       THEN /\ error' = Text("Upload a photo of your leftovers first.")
            /\ errorOrigin' = "submit"
            /\ UNCHANGED <<loading, recipes, summary, whatsAppResult, noticeTranscript, genInFlight>>
       ELSE /\ Len(genInFlight) < MaxInFlight
            /\ loading' = TRUE
            /\ error' = ErrorOnSubmit
            /\ errorOrigin' = IF ErrorOnSubmit = JNull THEN "none" ELSE errorOrigin
            /\ recipes' = RecipesOnSubmit
            /\ summary' = JNull
            /\ whatsAppResult' = JNull
            /\ noticeTranscript' = ""
            /\ genInFlight' = Append(genInFlight, [imageDataUrl |-> imageDataUrl.v])
    /\ UNCHANGED <<fileChosen, imageDataUrl, sendPhone, sendingToWhatsApp,
                   readsInFlight, waInFlight, copiesInFlight, genVars, waVars, memoVars>>

\* handleGenerate after its fetch: response.ok
GenerateSucceeds(i, data) ==
    /\ i \in 1..Len(genInFlight)
    /\ genInFlight' = Remove(genInFlight, i)
    /\ recipes' = data.recipes
    /\ summary' = Text(data.summary)
    /\ loading' = FALSE
    /\ UNCHANGED <<fileChosen, imageDataUrl, error, sendPhone,
                   sendingToWhatsApp, whatsAppResult, noticeTranscript, readsInFlight, waInFlight,
                   copiesInFlight, errorOrigin, genVars, waVars, memoVars>>

\* handleGenerate after its fetch: the catch branch
GenerateFails(i, message) ==
    /\ i \in 1..Len(genInFlight)
    /\ genInFlight' = Remove(genInFlight, i)
    /\ error' = Text(message)
    /\ errorOrigin' = "generate"
    /\ loading' = FALSE
    /\ UNCHANGED <<fileChosen, imageDataUrl, recipes, summary, sendPhone,
                   sendingToWhatsApp, whatsAppResult, noticeTranscript, readsInFlight, waInFlight,
                   copiesInFlight, genVars, waVars, memoVars>>

\* The phone input of the share panel
setSendPhone(p) ==
    /\ SharePanelShown
    /\ p # sendPhone
    /\ sendPhone' = p
    /\ UNCHANGED <<fileChosen, imageDataUrl, recipes, summary, loading, error,
                   sendingToWhatsApp, whatsAppResult, noticeTranscript, readsInFlight, genInFlight,
                   waInFlight, copiesInFlight, errorOrigin,
                   genVars, waVars, memoVars>>

\* handleSendToWhatsApp up to its fetch
handleSendToWhatsApp ==
    /\ SendEnabled
    /\ combinedMessage(recipes, summary) # ""
    /\ Len(waInFlight) < MaxInFlight
    /\ sendingToWhatsApp' = TRUE
    /\ whatsAppResult' = JNull
    /\ noticeTranscript' = ""
    /\ error' = JNull
    /\ errorOrigin' = "none"
    /\ waInFlight' =
          Append(waInFlight,
                 [message |-> combinedMessage(recipes, summary),
                  phoneNumber |-> IF TrimPhone(sendPhone) = ""
                                  THEN Undef ELSE Text(TrimPhone(sendPhone))])
    /\ UNCHANGED <<fileChosen, imageDataUrl, recipes, summary, loading,
                   sendPhone, readsInFlight, genInFlight, copiesInFlight,
                   genVars, waVars, memoVars>>

\* handleSendToWhatsApp after its fetch: response.ok
WhatsAppSucceeds(i, status) ==
    /\ i \in 1..Len(waInFlight)
    /\ waInFlight' = Remove(waInFlight, i)
    /\ whatsAppResult' =
          IF status = "queued"
          THEN Text("WhatsApp message queued successfully!")
          ELSE Text("WhatsApp message sent.")
    /\ noticeTranscript' = waInFlight[i].message
    /\ sendingToWhatsApp' = FALSE
    /\ UNCHANGED <<fileChosen, imageDataUrl, recipes, summary, loading, error,
                   sendPhone, readsInFlight, genInFlight, copiesInFlight,
                   errorOrigin, genVars, waVars, memoVars>>

\* handleSendToWhatsApp after its fetch: the catch branch
WhatsAppFails(i, message) ==
    /\ i \in 1..Len(waInFlight)
    /\ waInFlight' = Remove(waInFlight, i)
    /\ error' = Text(message)
    /\ errorOrigin' = "delivery"
    /\ sendingToWhatsApp' = FALSE
    /\ UNCHANGED <<fileChosen, imageDataUrl, recipes, summary, loading,
                   sendPhone, whatsAppResult, noticeTranscript, readsInFlight, genInFlight,
                   copiesInFlight, genVars, waVars, memoVars>>

\* The "Copy recipes" button: navigator.clipboard.writeText begins
CopyClick ==
    /\ SharePanelShown
    /\ copiesInFlight < MaxCopies
    /\ copiesInFlight' = copiesInFlight + 1
    /\ UNCHANGED <<fileChosen, imageDataUrl, recipes, summary, loading, error,
                   sendPhone, sendingToWhatsApp, whatsAppResult, noticeTranscript, readsInFlight,
                   genInFlight, waInFlight, errorOrigin, genVars, waVars, memoVars>>

\* .then(() => setWhatsAppResult("Copied recipes to clipboard."))
CopyResolves ==
    /\ copiesInFlight > 0
    /\ copiesInFlight' = copiesInFlight - 1
    /\ whatsAppResult' = Text("Copied recipes to clipboard.")
    /\ noticeTranscript' = ""
    /\ UNCHANGED <<fileChosen, imageDataUrl, recipes, summary, loading, error,
                   sendPhone, sendingToWhatsApp, readsInFlight, genInFlight,
                   waInFlight, errorOrigin, genVars, waVars, memoVars>>

\* .catch(() => setError("Unable to copy recipes to clipboard."))
CopyRejects ==
    /\ copiesInFlight > 0
    /\ copiesInFlight' = copiesInFlight - 1
    /\ error' = Text("Unable to copy recipes to clipboard.")
    /\ errorOrigin' = "copy"
    /\ UNCHANGED <<fileChosen, imageDataUrl, recipes, summary, loading,
                   sendPhone, sendingToWhatsApp, whatsAppResult, noticeTranscript, readsInFlight,
                   genInFlight, waInFlight, genVars, waVars, memoVars>>

(***************************************************************************)
(* The transcript on its own: useMemo(..., [recipes, summary]) computed    *)
(* over recipe lists and summaries the page can hold                       *)
(***************************************************************************)
MaxList == 3        \* recipes in a list
MaxRenders == 2     \* computations of the memo on the same inputs

TranscriptRecipeA ==
    [name |-> "Quick Tomato Basil Pasta",
     description |-> "A quick dish.",
     ingredients |-> <<"200g pasta", "2 tomatoes", "basil">>,
     steps |-> <<"Boil pasta", "Saute tomatoes", "Combine">>]
TranscriptRecipeB ==
    [name |-> "Bruschetta",
     description |-> "Toast with tomatoes.",
     ingredients |-> <<"bread", "2 tomatoes", "basil", "olive oil">>,
     steps |-> <<"Toast bread", "Chop tomatoes", "Top the toast">>]
\* Its last step ends with a space: the schema of the endpoint lets it pass.
TranscriptRecipeC ==
    [name |-> "Pesto",
     description |-> "Basil sauce.",
     ingredients |-> <<"basil", "olive oil", "garlic">>,
     steps |-> <<"Crush garlic", "Add basil", "Pour the oil", "Serve warm ">>]
TranscriptRecipes == {TranscriptRecipeA, TranscriptRecipeB, TranscriptRecipeC}
TranscriptLists == UNION {[1..n -> TranscriptRecipes] : n \in 0..MaxList}
\* useState<string | null>: null, and strings, the empty one included.
TranscriptSummaries == {JNull, Text(""), Text("Detected tomatoes, pasta, basil")}

\* A render of the page: the memo function runs on the recipes and summary.
TranscriptRender ==
    /\ renders < MaxRenders
    /\ renders' = renders + 1
    /\ transcriptBefore' = transcript
    /\ transcript' = combinedMessage(recipes, summary)
    /\ UNCHANGED <<genVars, waVars, uiVars>>

(***************************************************************************)
(* Specifications                                                          *)
(***************************************************************************)
\* The environment the endpoints run in while another piece is studied.
MemoAtRest == transcript = "" /\ transcriptBefore = "" /\ renders = 0
GenerateAtRest == gEnvKey = Text("sk-key") /\ GenerateIdle
WhatsAppAtRest ==
    /\ wEnv = [token |-> Text("token"), phoneId |-> Text("1055"),
               defaultRecipient |-> Undef]
    /\ WhatsAppIdle

InitGenerate ==
    /\ gEnvKey \in {Undef, Text(""), Text("sk-key")}
    /\ GenerateIdle
    /\ WhatsAppAtRest
    /\ PageInit
    /\ MemoAtRest

NextGenerate ==
    \/ \E body \in GenerateBodies : GeneratePOST(body)
    \/ \E reply \in ModelReplies : GenerateModelReturns(reply)
    \/ GenerateRespond

SpecGenerate == InitGenerate /\ [][NextGenerate]_vars

InitWhatsApp ==
    /\ wEnv \in WhatsAppEnvs
    /\ WhatsAppIdle
    /\ GenerateAtRest
    /\ PageInit
    /\ MemoAtRest

NextWhatsApp ==
    \/ \E body \in WhatsAppBodies : WhatsAppPOST(body)
    \/ \E reply \in ProviderReplies : WhatsAppFetchReturns(reply)
    \/ WhatsAppRespond

SpecWhatsApp == InitWhatsApp /\ [][NextWhatsApp]_vars

InitTranscript ==
    /\ recipes \in TranscriptLists
    /\ summary \in TranscriptSummaries
    /\ fileChosen = FALSE
    /\ imageDataUrl = JNull
    /\ loading = FALSE
    /\ error = JNull
    /\ sendPhone = ""
    /\ sendingToWhatsApp = FALSE
    /\ whatsAppResult = JNull
    /\ readsInFlight = 0
    /\ genInFlight = <<>>
    /\ waInFlight = <<>>
    /\ copiesInFlight = 0
    /\ errorOrigin = "none"
    /\ noticeTranscript = ""
    /\ MemoAtRest
    /\ GenerateAtRest
    /\ WhatsAppAtRest

NextTranscript == TranscriptRender

SpecTranscript == InitTranscript /\ [][NextTranscript]_vars

Init ==
    /\ PageInit
    /\ MemoAtRest
    /\ GenerateAtRest
    /\ WhatsAppAtRest

Next ==
    \/ \E file \in {"none", "other", "image"} : handleFileChange(file)
    \/ ReaderOnload
    \/ handleGenerate
    \/ \E i \in 1..Len(genInFlight), data \in GenerationResults :
          GenerateSucceeds(i, data)
    \/ \E i \in 1..Len(genInFlight), message \in GenerateFailures :
          GenerateFails(i, message)
    \/ \E p \in PhoneInputs : setSendPhone(p)
    \/ handleSendToWhatsApp
    \/ \E i \in 1..Len(waInFlight), status \in {"queued", "sent"} :
          WhatsAppSucceeds(i, status)
    \/ \E i \in 1..Len(waInFlight), message \in WhatsAppFailures :
          WhatsAppFails(i, message)
    \/ CopyClick
    \/ CopyResolves
    \/ CopyRejects

Spec == Init /\ [][Next]_vars

(***************************************************************************)
(* Claims about the generation endpoint (under SpecGenerate)               *)
(***************************************************************************)
\* cs starts with data:image/<type>;base64, for some non-empty <type>
StartsWithImagePrefix(cs) ==
    /\ OccursAt(cs, DataImagePrefix, 1)
    /\ \E n \in 1..Len(cs) : OccursAt(cs, Base64Marker, Len(DataImagePrefix) + n + 1)

\* The request carries no imageDataUrl with that prefix.
ImageNotPrefixed ==
    /\ gRequest # NoRequest
    /\ \/ gRequest.t # "obj"
       \/ gRequest.imageDataUrl.t # "str"
       \/ ~StartsWithImagePrefix(gRequest.imageDataUrl.chars)

\* C1, as stated: a request whose imageDataUrl does not start with
\* data:image/<type>;base64, (or is missing or too short) is answered 400,
\* and no call to the model provider is made in that request.
C1_BadImageIs400 ==
    ImageNotPrefixed => gResponse.status = 400 /\ gCalls = <<>>

\* C1, amended: such a request is rejected with no call to the model
\* provider; the answer is 400 when OPENAI_API_KEY is set and the 500 of the
\* missing key when it is not.
C1_BadImageRejectedBeforeCall ==
    ImageNotPrefixed =>
        /\ gCalls = <<>>
        /\ gPc = "done"
        /\ gResponse.status = IF JsTruthy(gEnvKey) THEN 400 ELSE 500

\* C1's case: the key is set and a long enough string with another media
\* type has been refused.
C1_Witness ==
    /\ ImageNotPrefixed
    /\ JsTruthy(gEnvKey)
    /\ gRequest.t = "obj"
    /\ gRequest.imageDataUrl.t = "str"
    /\ Len(gRequest.imageDataUrl.chars) >= ImageMin
    /\ gRequest.notes.t = "undef"
    /\ gResponse.status = 400

\* The bounds of a generation result, on the JSON value v.
IsStringOfLen(v, n) == v.t = "str" /\ v.len >= n
WithinRecipeBounds(r) ==
    /\ r.t = "obj"
    /\ IsStringOfLen(r.name, 3)
    /\ IsStringOfLen(r.description, 10)
    /\ r.ingredients.t = "arr"
    /\ Len(r.ingredients.items) >= 3
    /\ \A i \in 1..Len(r.ingredients.items) : IsStringOfLen(r.ingredients.items[i], 2)
    /\ r.steps.t = "arr"
    /\ Len(r.steps.items) >= 3
    /\ \A i \in 1..Len(r.steps.items) : IsStringOfLen(r.steps.items[i], 5)

\* C2: for a valid image request and any reply of the model, the answer is
\* either a success body of 3 to 5 recipes within the bounds, with a summary
\* of 10 characters or more, carrying the reply's summary and recipes as they
\* came, or a non-2xx error body.
C2_ResultWithinBoundsOrError ==
    (gPc = "done" /\ gCalls # <<>>) =>
        \/ /\ gResponse.status = 200
           /\ gReply.t = "json"
           /\ gReply.value.t = "obj"
           /\ gResponse.body.summary = gReply.value.summary
           /\ gResponse.body.recipes = gReply.value.recipes
           /\ IsStringOfLen(gResponse.body.summary, 10)
           /\ gResponse.body.recipes.t = "arr"
           /\ Len(gResponse.body.recipes.items) \in 3..5
           /\ \A i \in 1..Len(gResponse.body.recipes.items) :
                 WithinRecipeBounds(gResponse.body.recipes.items[i])
        \/ /\ gResponse.status \notin 200..299
           /\ gResponse.status # 0
           /\ "error" \in DOMAIN gResponse

\* C2's case: a reply of five recipes, one of them ample, has been accepted.
C2_Witness ==
    /\ gPc = "done"
    /\ gResponse.status = 200
    /\ Len(gResponse.body.recipes.items) = 5
    /\ \E i \in 1..5 : gResponse.body.recipes.items[i] = AmpleRecipe

(***************************************************************************)
(* Claims about the delivery endpoint (under SpecWhatsApp)                 *)
(***************************************************************************)
CredentialsSet == JsTruthy(wEnv.token) /\ JsTruthy(wEnv.phoneId)

\* The request is in order but for its recipient: a JSON object, a message
\* of 10 characters or more, a recipient that is a string or left out.
DeliveryWellFormed ==
    /\ wRequest.t = "obj"
    /\ wRequest.message.t = "str"
    /\ Len(wRequest.message.v) >= 10
    /\ wRequest.phoneNumber.t \in {"str", "undef"}

\* A delivery request (a message of 10 characters or more) names no
\* recipient (none, or the empty string) and no default recipient is
\* configured.
NoRecipientAnywhere ==
    /\ wRequest # NoRequest
    /\ DeliveryWellFormed
    /\ \/ wRequest.phoneNumber.t = "undef"
       \/ wRequest.phoneNumber = Text("")
    /\ ~JsTruthy(wEnv.defaultRecipient)

\* C3, as stated: a delivery request with an empty or no recipient and no
\* configured default is answered 400 and the messaging call is not made.
C3_NoRecipientIs400 ==
    NoRecipientAnywhere => wResponse.status = 400 /\ wCalls = <<>>

\* C3, amended: such a request is refused and the messaging call is not
\* made; the answer is 400 when the credentials are configured and the 500
\* of the missing credentials when they are not.
C3_NoRecipientRefusedBeforeCall ==
    NoRecipientAnywhere =>
        /\ wCalls = <<>>
        /\ wPc = "done"
        /\ wResponse.status = IF CredentialsSet THEN 400 ELSE 500

\* C3's case: credentials set, a valid message, the empty recipient, no
\* default: refused for the lack of a recipient.
C3_Witness ==
    /\ NoRecipientAnywhere
    /\ CredentialsSet
    /\ wRequest.phoneNumber = Text("")
    /\ wResponse.status = 400
    /\ wResponse.error = Err("Provide a phoneNumber in the request or configure WHATSAPP_RECIPIENT.")

\* C4, as stated, for a request that is otherwise in order: a supplied
\* (non-empty) recipient is the `to` of the outbound payload whatever the
\* default; an absent (undefined or empty) one is replaced by the configured
\* default; the request is refused for the lack of a recipient only when
\* both are absent.
C4_RecipientResolution ==
    (wPc \in {"awaitFetch", "done"} /\ CredentialsSet /\ DeliveryWellFormed) =>
        /\ JsTruthy(wRequest.phoneNumber) =>
              /\ Len(wCalls) = 1
              /\ wCalls[1].payload.to = wRequest.phoneNumber.v
        /\ (~JsTruthy(wRequest.phoneNumber) /\ JsTruthy(wEnv.defaultRecipient)) =>
              /\ Len(wCalls) = 1
              /\ wCalls[1].payload.to = wEnv.defaultRecipient.v
        /\ wCalls = <<>> =>
              /\ ~JsTruthy(wRequest.phoneNumber)
              /\ ~JsTruthy(wEnv.defaultRecipient)

\* The provider's response body contains a `messages` array.
HasMessagesArray(b) == b.t = "obj" /\ b.messages.t = "arr"
\* The identifier of the first message of the body, null when there is none.
FirstMessageId(b) ==
    IF /\ HasMessagesArray(b)
       /\ Len(b.messages.items) >= 1
       /\ b.messages.items[1].t = "obj"
       /\ b.messages.items[1].id.t = "str"
    THEN b.messages.items[1].id
    ELSE JNull

RequestFault ==
    \/ ~DeliveryWellFormed
    \/ wRequest.phoneNumber = Text("")
    \/ wRequest.phoneNumber.t = "undef" /\ ~JsTruthy(wEnv.defaultRecipient)

\* The classes of failure by status.
FailureStatusClasses ==
    (wPc = "done" /\ wResponse.status # 200) =>
        /\ wResponse.status \in {400, 500, 502}
        /\ ~CredentialsSet => wResponse.status = 500 /\ wCalls = <<>>
        /\ (CredentialsSet /\ RequestFault) =>
              wResponse.status = 400 /\ wCalls = <<>>
        /\ (CredentialsSet /\ ~RequestFault) =>
              /\ wResponse.status = 502
              /\ Len(wCalls) = 1
              /\ wReply.t = "throw" \/ ~wReply.ok

\* The endpoint answered a non-success response of the provider.
AnsweredUpstreamError ==
    wPc = "done" /\ wReply.t = "response" /\ ~wReply.ok

\* C6, as stated: missing credentials give 500 before the body is read or
\* the network touched; a malformed body, a short message or an unresolvable
\* recipient give 400 with no outbound call; a non-success or failed provider
\* call gives 502 whose error text includes the upstream status and body; no
\* other status is returned on failure.
C6_FailureClassesWithBody ==
    /\ FailureStatusClasses
    /\ AnsweredUpstreamError =>
          /\ wResponse.error.status = wReply.status
          /\ wResponse.error.body = wReply.body

\* C6, amended: the same classes, and the error text of a non-success
\* response carries the upstream status and the upstream body when that body
\* is JSON, `{}` when it is not; a call that fails without a response gives
\* 502 with that failure's message.
C6_FailureClasses ==
    /\ FailureStatusClasses
    /\ AnsweredUpstreamError =>
          /\ wResponse.error.status = wReply.status
          /\ wResponse.error.body =
                IF wReply.body.t = "notjson"
                THEN [t |-> "obj", messages |-> Undef] ELSE wReply.body
    /\ (wPc = "done" /\ wReply.t = "throw") =>
          wResponse = [status |-> 502, error |-> Err("fetch failed")]

\* C6's case: a non-success response whose body is not JSON became a 502.
C6_Witness ==
    /\ wPc = "done"
    /\ wReply.t = "response"
    /\ wReply.status = 401
    /\ wReply.body.t = "notjson"
    /\ wResponse.status = 502
    /\ wResponse.error.status = 401

(***************************************************************************)
(* Claims about the client page (under Spec)                               *)
(***************************************************************************)
\* C7: at most one generation request and at most one delivery request are
\* outstanding; a generation cannot be submitted while `loading` is true nor
\* a delivery triggered while `sendingToWhatsApp` is true.
C7_OnePendingPerAction ==
    /\ Len(genInFlight) <= 1
    /\ Len(waInFlight) <= 1
    /\ loading <=> Len(genInFlight) = 1
    /\ sendingToWhatsApp <=> Len(waInFlight) = 1
    /\ loading => ~ENABLED handleGenerate
    /\ sendingToWhatsApp => ~ENABLED handleSendToWhatsApp

\* C7's case: a delivery request and a generation request are outstanding
\* at the same time.
C7_Witness ==
    /\ Len(genInFlight) = 1
    /\ Len(waInFlight) = 1
    /\ loading
    /\ sendingToWhatsApp

RecipesShown == Len(recipes) > 0
ErrorShown == JsTruthy(error)
\* The notice is rendered inside the share panel.
NoticeShown == RecipesShown /\ JsTruthy(whatsAppResult)

\* C8, as stated: when recipes of a successful generation, or a delivery or
\* copy notice, are displayed, the displayed error, if any, does not come
\* from another action (a failed delivery, a failed copy, a rejected file).
C8_NoErrorOfAnotherAction ==
    /\ (RecipesShown /\ ErrorShown) => errorOrigin \in {"generate", "submit"}
    /\ (NoticeShown /\ ErrorShown) =>
          IF whatsAppResult = Text("Copied recipes to clipboard.")
          THEN errorOrigin = "copy" ELSE errorOrigin = "delivery"

\* C8, amended: when recipes of a successful generation are displayed, the
\* displayed error, if any, is not that of a failed generation request; it
\* may be the error of a delivery, of a copy, of a file selection or of a
\* submission without an image.
C8_NoGenerationErrorBesideRecipes ==
    (RecipesShown /\ ErrorShown) => errorOrigin # "generate"

\* C8's case: the recipes of a generation are displayed beside the error of
\* a failed delivery.
C8_Witness ==
    /\ RecipesShown
    /\ ErrorShown
    /\ errorOrigin = "delivery"
    /\ ~loading

\* C9: the summary and the recipes displayed come from the same generation
\* response, and while a generation request is outstanding the recipe list
\* is empty and the summary null.
C9_ResultReplacedWhole ==
    /\ \/ recipes = <<>> /\ summary = JNull
       \/ \E r \in GenerationResults :
             recipes = r.recipes /\ summary = Text(r.summary)
    /\ Len(genInFlight) > 0 => recipes = <<>> /\ summary = JNull

\* C9's case: a new generation is outstanding after an earlier result was
\* displayed (its transcript is still on its way to the delivery endpoint).
C9_Witness ==
    /\ Len(genInFlight) = 1
    /\ recipes = <<>>
    /\ summary = JNull
    /\ \E i \in 1..Len(waInFlight) :
          waInFlight[i].message = combinedMessage(ResultA.recipes, Text(ResultA.summary))

\* C10, as stated: whenever a user action begins (a submission, a send, a
\* copy, a file selection) the error displayed before is cleared: after the
\* step no error is displayed, or the one the step itself has set.
C10_ErrorClearedWhenActionBegins ==
    [][(\/ \E file \in {"none", "other", "image"} : handleFileChange(file)
        \/ handleGenerate
        \/ handleSendToWhatsApp
        \/ CopyClick)
       => (\/ error' = JNull
           \/ handleFileChange("other")
           \/ handleGenerate /\ ~JsTruthy(imageDataUrl))]_vars

(***************************************************************************)
(* Claims about the transcript (under SpecTranscript)                      *)
(***************************************************************************)
\* The lines of a text: its pieces between line feeds.
LineFeeds(s) == {i \in 1..Len(s) : SubSeq(s, i, i) = "\n"}
\* The position of the k-th of the line feeds `feeds` of a text of length
\* n; 0 and n + 1 bound the text.
LineFeed(feeds, n, k) ==
    IF k = 0 THEN 0
    ELSE IF k > Cardinality(feeds) THEN n + 1
    ELSE CHOOSE p \in feeds : Cardinality({q \in feeds : q <= p}) = k
Split(s) ==
    LET feeds == LineFeeds(s)
        n == Len(s)
    IN  [k \in 1..(Cardinality(feeds) + 1) |->
            SubSeq(s, LineFeed(feeds, n, k - 1) + 1, LineFeed(feeds, n, k) - 1)]
TranscriptLines == Split(transcript)

\* The lines before the first block: the title line, the summary if it is
\* present, and one blank line.
LinesBeforeBlocks == IF JsTruthy(summary) THEN 3 ELSE 2
\* The lines of the block of a recipe, from its heading to its last step.
BlockLen(recipe) == 4 + Len(recipe.ingredients) + Len(recipe.steps)
\* The line at which the i-th block begins: a blank line separates blocks.
RECURSIVE BlockStart(_)
BlockStart(i) ==
    IF i = 1 THEN LinesBeforeBlocks + 1
    ELSE BlockStart(i - 1) + BlockLen(recipes[i - 1]) + 1

\* The i-th block of the transcript is the i-th recipe of the list.
BlockIsRecipe(i, lines) ==
    LET r == recipes[i]
        at == BlockStart(i)
        nIng == Len(r.ingredients)
        nSteps == Len(r.steps)
        last == i = Len(recipes)
    IN  /\ lines[at] = "*" \o ToString(i) \o ". " \o r.name \o "*"
        /\ lines[at + 1] = r.description
        /\ lines[at + 2] = "_Ingredients_:"
        /\ \A k \in 1..nIng : lines[at + 2 + k] = Bullet \o r.ingredients[k]
        /\ lines[at + 3 + nIng] = "_Steps_:"
        /\ \A k \in 1..nSteps :
              lines[at + 3 + nIng + k] =
                 IF last /\ k = nSteps
                 THEN TrimEnd(ToString(k) \o ". " \o r.steps[k])
                 ELSE ToString(k) \o ". " \o r.steps[k]
        /\ ~last => lines[at + BlockLen(r)] = ""

\* C11: the transcript computed twice on the same recipe list and summary is
\* the same text, and for a non-empty list it is, line by line: the title
\* line, the summary if present, a blank line, then one block per recipe in
\* the order of the list and nothing else, the i-th block being the heading
\* `*i. <name>*`, the description, `_Ingredients_:`, one bullet line per
\* ingredient in order, `_Steps_:` and one numbered line per step in order
\* (the white space that ends the last line of the text is trimmed).
C11_TranscriptDeterministicInOrder ==
    LET lines == TranscriptLines
    IN  /\ renders >= 2 => transcript = transcriptBefore
        /\ (renders >= 1 /\ Len(recipes) = 0) => transcript = ""
        /\ (renders >= 1 /\ Len(recipes) > 0) =>
              /\ Len(lines) =
                    BlockStart(Len(recipes)) + BlockLen(recipes[Len(recipes)]) - 1
              /\ lines[1] = TitleLine
              /\ JsTruthy(summary) => lines[2] = summary.v
              /\ lines[LinesBeforeBlocks] = ""
              /\ \A i \in 1..Len(recipes) : BlockIsRecipe(i, lines)

\* C11's case: the transcript of three different recipes and a summary was
\* computed twice; its first block is headed by the first recipe and its
\* last line is the trimmed last step of the third.
C11_Witness ==
    LET lines == TranscriptLines
    IN  /\ renders = 2
        /\ recipes = <<TranscriptRecipeA, TranscriptRecipeB, TranscriptRecipeC>>
        /\ JsTruthy(summary)
        /\ lines[4] = "*1. Quick Tomato Basil Pasta*"
        /\ lines[5] = "A quick dish."
        /\ lines[Len(lines)] = "4. Serve warm"

(***************************************************************************)
(* The delivery notice and the recipes beside it (under Spec)              *)
(***************************************************************************)
\* The notice displayed reports a delivery (and not a copy).
DeliveryNoticeShown ==
    /\ NoticeShown
    /\ whatsAppResult \in {Text("WhatsApp message queued successfully!"),
                           Text("WhatsApp message sent.")}

\* C12, as stated: a delivery success notice is displayed only beside the
\* recipe list whose transcript was delivered; the notice of a delivery
\* started before a new generation was submitted is never displayed beside
\* the recipes of that generation.
C12_NoticeBesideDeliveredRecipes ==
    DeliveryNoticeShown => noticeTranscript = combinedMessage(recipes, summary)

====
